---- MODULE Spec2Model ----
(***************************************************************************)
(* Model of bin/index.js: the generator that projects TypeORM entity       *)
(* classes onto plain model interfaces.  One run of main() is a sequence   *)
(* of steps: the registry pass over the source files, the base model, one  *)
(* module per source file (class by class, property by property), and the  *)
(* barrel file.                                                            *)
(*                                                                         *)
(* Text is modelled by its parts.  A type text is a sequence of tokens     *)
(* (<<"A", "[]">> is `A[]`), an import line is the pair (name, from), a    *)
(* written file is the record of its import lines, header comment,         *)
(* interface blocks, enum blocks and export lines, in the order the code   *)
(* concatenates them.                                                      *)
(***************************************************************************)
EXTENDS Integers, Sequences, FiniteSets, TLC

VARIABLES
    sourceFiles,        \* project.getSourceFiles(): the parsed input, fixed for the run
    pc,                 \* position of main()
    i,                  \* index of the source file of the running forEach
    j,                  \* index of the entity class inside the current file
    modelFileMap,       \* entity name -> module (basename)
    allInterfaceNames,  \* sequence of {file, name}
    fs,                 \* outDir: file name -> content written
    imports,            \* Set of import lines of the current module, in insertion order
    usedEnums,          \* Map enum name -> info of the current module, in insertion order
    fileContent,        \* interface blocks of the current module so far
    properties,         \* properties pushed for the current class
    autoProps,          \* names assigned in lifecycle hooks of the current class
    methods,            \* entityClass.getMethods() of the current class, as read
    declared,           \* entityClass.getProperties() of the current class, as read so far
    nread               \* number of properties read over the run

vars == <<sourceFiles, pc, i, j, modelFileMap, allInterfaceNames, fs, imports,
          usedEnums, fileContent, properties, autoProps, methods, declared, nread>>

----------------------------------------------------------------------------
(* Bounds and input pools *)

\* properties read by the generation pass over one run
MaxProps == 2

\* names of the properties of a class, in declaration order
PropNames == <<"p", "q", "r", "s">>

NoArg == ""          \* a decorator without a string-literal first argument
NoEnum == ""         \* the type does not resolve to an enum declaration
Undefined == "undefined"   \* how a template literal renders a missing map entry

Targets == {"A", "B"}

Range(s) == {s[k] : k \in 1..Len(s)}

----------------------------------------------------------------------------
(* Pure functions of the source *)

isRelationDecorator(decoratorName) ==
    decoratorName \in {"OneToMany", "ManyToOne", "OneToOne", "ManyToMany",
                       "JoinTable", "JoinColumn"}

toModelName(className) == className \o "Model"

\* n.endsWith("Column") over the decorator vocabulary of the model
EndsWithColumn(n) ==
    n \in {"Column", "PrimaryGeneratedColumn", "VirtualColumn", "JoinColumn"}

lifecycleDecorators ==
    {"AfterLoad", "BeforeInsert", "AfterInsert", "BeforeUpdate", "AfterUpdate"}

baseModelInterface == "BaseModel"

\* path.basename(filePath, ".entity.ts"): the suffix is stripped only when present
Basename(f) == IF f.ext = ".entity.ts" THEN f.stem ELSE f.stem \o f.ext

\* path.basename(filePath)
FileName(f) == f.stem \o f.ext

\* modelFileMap[key] of a plain object: undefined when the key is absent
Lookup(m, key) == IF key \in DOMAIN m THEN m[key] ELSE Undefined

\* truthiness of modelFileMap[text] for a type text
Registered(m, text) == Len(text) = 1 /\ text[1] \in DOMAIN m

\* /\[\]$/.test(tText)
EndsWithArray(text) == Len(text) > 0 /\ text[Len(text)] = "[]"

\* tText.replace(/\[\]$/, "")
StripArray(text) == SubSeq(text, 1, Len(text) - 1)

\* Set.prototype.add on an insertion-ordered set
SetAdd(s, x) == IF x \in Range(s) THEN s ELSE Append(s, x)

\* Map.prototype.set on an insertion-ordered map keyed by name
MapSet(m, info) ==
    IF \E k \in 1..Len(m) : m[k].name = info.name
    THEN [k \in 1..Len(m) |-> IF m[k].name = info.name THEN info ELSE m[k]]
    ELSE Append(m, info)

ImportLine(name, from) == [name |-> name, from |-> from]

\* the first element of a sequence that satisfies a test, as Array.prototype.find
RECURSIVE FindRel(_)
FindRel(decs) ==
    IF decs = <<>> THEN <<>>
    ELSE IF isRelationDecorator(Head(decs).name) THEN <<Head(decs)>>
    ELSE FindRel(Tail(decs))

\* AutoPropsOf with a lifecycle set that knows AfterLoad only
AutoPropsAfterLoadOnly(ms) ==
    UNION { Range(ms[k].lhs) :
              k \in {n \in 1..Len(ms) : "AfterLoad" \in Range(ms[n].decs)} }

\* names assigned as this.<name> in the bodies of lifecycle-decorated methods
AutoPropsOf(ms) ==
    UNION { Range(ms[k].lhs) :
              k \in {n \in 1..Len(ms) : Range(ms[n].decs) \cap lifecycleDecorators # {}} }

\* the members of the enum declarations of the input
EnumMembers(name) ==
    IF name = "Status"
    THEN << [name |-> "Active", value |-> "active"],
            [name |-> "Inactive", value |-> "inactive"] >>
    ELSE <<>>

\* extractEnum: <<>> is null, <<info>> the enum the type resolves to
extractEnum(enumType) ==
    IF enumType.enum = NoEnum THEN <<>>
    ELSE << [name |-> enumType.enum, members |-> EnumMembers(enumType.enum)] >>

\* one iteration of entityClass.getProperties().forEach: the three collections
\* of the module after the property prop of class className is processed
ProcessProp(className, prop, m, auto, props, imps, enums) ==
    LET names == [k \in 1..Len(prop.decs) |-> prop.decs[k].name]
        hasColumn == \E n \in Range(names) : EndsWithColumn(n)
        rel == FindRel(prop.decs)
        isVirtual == "VirtualColumn" \in Range(names)
        shouldAuto == prop.name \in auto
        tText == prop.type.text
        enumInfo == extractEnum(prop.type)
        out(ps, is, es) == [properties |-> ps, imports |-> is, usedEnums |-> es]
        push(t) == Append(props, [name |-> prop.name, type |-> t])
    IN  IF ~hasColumn /\ rel = <<>> /\ ~shouldAuto
        THEN out(props, imps, enums)
        ELSE IF rel # <<>> /\ rel[1].arg # NoArg
        THEN \* relations
             LET target == rel[1].arg
                 mname == toModelName(target)
             IN  out(push(IF rel[1].name = "OneToMany"
                          THEN <<mname, "[]">> ELSE <<mname>>),
                     IF target # className
                     THEN SetAdd(imps, ImportLine(mname, Lookup(m, target)))
                     ELSE imps,
                     enums)
        ELSE IF isVirtual
        THEN \* virtual columns
             out(push(tText), imps, enums)
        ELSE IF shouldAuto
        THEN \* auto-loaded props
             out(push(tText), imps, enums)
        ELSE IF enumInfo # <<>>
        THEN \* fallback
             out(push(<<enumInfo[1].name>>), imps, MapSet(enums, enumInfo[1]))
        ELSE IF EndsWithArray(tText)
        THEN LET bt == StripArray(tText) IN
             IF Registered(m, bt)
             THEN LET mn == toModelName(bt[1]) IN
                  out(push(<<mn, "[]">>),
                      SetAdd(imps, ImportLine(mn, m[bt[1]])), enums)
             ELSE out(push(tText), imps, enums)
        ELSE IF Registered(m, tText)
        THEN LET mn == toModelName(tText[1]) IN
             out(push(<<mn>>), SetAdd(imps, ImportLine(mn, m[tText[1]])), enums)
        ELSE out(push(tText), imps, enums)

\* RegisterClasses that records the first class of a file only
RegisterFirstClassOnly(m, classes, base) ==
    IF classes = <<>> \/ ~Head(classes).entity \/ Head(classes).name = "" THEN m
    ELSE [k \in DOMAIN m \cup {Head(classes).name} |->
             IF k = Head(classes).name THEN base ELSE m[k]]

\* the registry after the entity classes of one source file are recorded
RECURSIVE RegisterClasses(_, _, _)
RegisterClasses(m, classes, base) ==
    IF classes = <<>> THEN m
    ELSE LET c == Head(classes)
             m1 == IF c.entity /\ c.name # ""
                   THEN [k \in DOMAIN m \cup {c.name} |->
                            IF k = c.name THEN base ELSE m[k]]
                   ELSE m
         IN  RegisterClasses(m1, Tail(classes), base)

\* sourceFile.getClasses().filter(has an Entity decorator)
EntityClasses(f) == SelectSeq(f.classes, LAMBDA c : c.entity)

\* fs.writeFileSync: creates the file or replaces its content
WriteFileSync(disk, name, content) ==
    [p \in DOMAIN disk \cup {name} |-> IF p = name THEN content ELSE disk[p]]

Content(imps, comment, interfaces, enums, exports) ==
    [imports |-> imps, comment |-> comment, interfaces |-> interfaces,
     enums |-> enums, exports |-> exports]

\* baseProps of the base class
RECURSIVE BaseProps(_, _)
BaseProps(props, autoBase) ==
    IF props = <<>> THEN <<>>
    ELSE LET prop == Head(props)
             hasCol == \E k \in 1..Len(prop.decs) : EndsWithColumn(prop.decs[k].name)
             isAuto == prop.name \in autoBase
         IN  (IF ~hasCol /\ ~isAuto THEN <<>>
              ELSE << [name |-> prop.name, type |-> prop.type.text] >>)
             \o BaseProps(Tail(props), autoBase)

----------------------------------------------------------------------------
(* Input pools *)

Dec(name, arg) == [name |-> name, arg |-> arg]
Type(text, enum) == [text |-> text, enum |-> enum]
Method(decs, lhs) == [decs |-> decs, lhs |-> lhs]
Class(name, entity) == [name |-> name, entity |-> entity]
File(dir, stem, ext, classes) ==
    [dir |-> dir, stem |-> stem, ext |-> ext, classes |-> classes]

StringType == Type(<<"string">>, NoEnum)
StatusType == Type(<<"Status">>, "Status")
EntityType == Type(<<"B">>, NoEnum)
EntityArrayType == Type(<<"B", "[]">>, NoEnum)

\* decorator lists and types of one property
PropShapes ==
    { [decs |-> <<>>, type |-> t] : t \in {StringType, StatusType} }
    \cup { [decs |-> <<Dec("VirtualColumn", NoArg)>>, type |-> t] :
             t \in {StatusType, EntityType} }
    \cup { [decs |-> <<Dec("Column", NoArg)>>, type |-> t] :
             t \in {StringType, StatusType, EntityType, EntityArrayType} }
    \cup { [decs |-> <<Dec(k, t)>>, type |-> Type(<<t>>, NoEnum)] :
             k \in {"ManyToOne", "OneToOne"}, t \in Targets }
    \cup { [decs |-> <<Dec(k, t)>>, type |-> Type(<<t, "[]">>, NoEnum)] :
             k \in {"OneToMany", "ManyToMany"}, t \in Targets }
    \cup { [decs |-> <<Dec("JoinColumn", NoArg), Dec("ManyToOne", "B")>>,
            type |-> EntityType] }

\* the methods of an entity class
MethodLists ==
    { <<>>,
      << Method(<<"BeforeInsert">>, <<"p">>) >>,
      << Method(<<"AfterLoad">>, <<"p", "p">>), Method(<<"BeforeUpdate">>, <<"p">>) >>,
      << Method(<<>>, <<"p">>) >> }

FilePool ==
    { File("x", "user", ".entity.ts", << Class("A", TRUE) >>),
      File("x", "post", ".entity.ts", << Class("B", TRUE) >>),
      File("y", "user", ".entity.ts", << Class("B", TRUE) >>),
      File("x", "user", ".entity.ts", << Class("A", TRUE), Class("B", TRUE) >>),
      File("x", "post", ".type.ts", << Class("B", TRUE) >>),
      File("y", "base", ".entity.ts", << Class("BaseEntity", FALSE) >>),
      File("y", "anon", ".entity.ts", << Class("", TRUE) >>) }

Path(f) == <<f.dir, f.stem, f.ext>>

\* the source sets: one or two files with distinct paths
Projects ==
    { <<f>> : f \in FilePool }
    \cup { pr \in { <<f, g>> : f \in FilePool, g \in FilePool } :
               Path(pr[1]) # Path(pr[2]) }

\* the base class as parsed: its methods and its properties
BaseInputs ==
    { [methods |-> ms,
       props |-> << [name |-> "id", decs |-> <<Dec("PrimaryGeneratedColumn", NoArg)>>,
                     type |-> Type(<<"string">>, NoEnum)],
                    [name |-> "createdAt", decs |-> <<>>,
                     type |-> Type(<<"Date">>, NoEnum)] >>] :
        ms \in { <<>>, << Method(<<"BeforeInsert">>, <<"createdAt">>) >> } }

----------------------------------------------------------------------------
(* The run of main() *)

NoFiles == [p \in {} |-> Content(<<>>, "", <<>>, <<>>, <<>>)]
NoMap == [k \in {} |-> ""]

Init ==
    /\ sourceFiles \in Projects
    /\ pc = "register"
    /\ i = 1
    /\ j = 1
    /\ modelFileMap = NoMap
    /\ allInterfaceNames = <<>>
    /\ fs = NoFiles
    /\ imports = <<>>
    /\ usedEnums = <<>>
    /\ fileContent = <<>>
    /\ properties = <<>>
    /\ autoProps = {}
    /\ methods = <<>>
    /\ declared = <<>>
    /\ nread = 0

\* one iteration of the "Register all model names" loop
RegisterFile ==
    /\ pc = "register"
    /\ i <= Len(sourceFiles)
    /\ modelFileMap' = RegisterClasses(modelFileMap, sourceFiles[i].classes,
                                       Basename(sourceFiles[i]))
    /\ i' = i + 1
    /\ UNCHANGED <<sourceFiles, pc, j, allInterfaceNames, fs, imports, usedEnums,
                   fileContent, properties, autoProps, methods, declared, nread>>

\* "Generate BaseModel from BaseEntity into base-model.ts"
GenerateBaseModel ==
    /\ pc = "register"
    /\ i > Len(sourceFiles)
    /\ IF \E k \in 1..Len(sourceFiles) :
            \E c \in Range(sourceFiles[k].classes) : c.name = "BaseEntity"
       THEN \E baseCls \in BaseInputs :
              LET autoBase == AutoPropsOf(baseCls.methods)
                  baseProps == BaseProps(baseCls.props, autoBase)
              IN  fs' = WriteFileSync(fs, "base-model.ts",
                          Content(<<>>, "BaseEntity",
                                  << [name |-> baseModelInterface, extends |-> "",
                                      props |-> baseProps] >>, <<>>, <<>>))
       ELSE fs' = fs
    /\ pc' = "generate"
    /\ i' = 1
    /\ UNCHANGED <<sourceFiles, j, modelFileMap, allInterfaceNames, imports, usedEnums,
                   fileContent, properties, autoProps, methods, declared, nread>>

\* start of one iteration of the "Generate models" loop: a file without entity
\* classes is skipped, otherwise the module's collections are created
StartFile ==
    /\ pc = "generate"
    /\ i <= Len(sourceFiles)
    /\ IF EntityClasses(sourceFiles[i]) = <<>>
       THEN /\ i' = i + 1
            /\ UNCHANGED <<pc, imports>>
       ELSE /\ pc' = "file"
            /\ imports' = << ImportLine(baseModelInterface, "base-model") >>
            /\ UNCHANGED i
    /\ j' = 1
    /\ UNCHANGED <<sourceFiles, modelFileMap, allInterfaceNames, fs, usedEnums,
                   fileContent, properties, autoProps, methods, declared, nread>>

ClassName(c) == IF c.name # "" THEN c.name ELSE "UnnamedModel"

\* start of one iteration of entityClasses.forEach: the interface is listed and
\* the lifecycle hooks of the class are scanned
StartClass ==
    /\ pc = "file"
    /\ j <= Len(EntityClasses(sourceFiles[i]))
    /\ \E ms \in MethodLists :
         /\ methods' = ms
         /\ autoProps' = AutoPropsOf(ms)
    /\ allInterfaceNames' =
         Append(allInterfaceNames,
                [file |-> Basename(sourceFiles[i]),
                 name |-> toModelName(ClassName(EntityClasses(sourceFiles[i])[j]))])
    /\ properties' = <<>>
    /\ declared' = <<>>
    /\ pc' = "class"
    /\ UNCHANGED <<sourceFiles, i, j, modelFileMap, fs, imports, usedEnums,
                   fileContent, nread>>

\* one iteration of entityClass.getProperties().forEach
ProcessProperty ==
    /\ pc = "class"
    /\ nread < MaxProps
    /\ Len(declared) < Len(PropNames)
    /\ \E shape \in PropShapes :
         LET prop == [name |-> PropNames[Len(declared) + 1],
                      decs |-> shape.decs, type |-> shape.type]
             r == ProcessProp(ClassName(EntityClasses(sourceFiles[i])[j]), prop,
                              modelFileMap, autoProps, properties, imports, usedEnums)
         IN  /\ declared' = Append(declared, prop)
             /\ properties' = r.properties
             /\ imports' = r.imports
             /\ usedEnums' = r.usedEnums
    /\ nread' = nread + 1
    /\ UNCHANGED <<sourceFiles, pc, i, j, modelFileMap, allInterfaceNames, fs,
                   fileContent, autoProps, methods>>

\* "build interface": the end of one iteration of entityClasses.forEach, where
\* the collections of the class go out of scope
BuildInterface ==
    /\ pc = "class"
    /\ fileContent' =
         Append(fileContent,
                [name |-> toModelName(ClassName(EntityClasses(sourceFiles[i])[j])),
                 extends |-> baseModelInterface, props |-> properties])
    /\ j' = j + 1
    /\ pc' = "file"
    /\ properties' = <<>>
    /\ autoProps' = {}
    /\ methods' = <<>>
    /\ declared' = <<>>
    /\ UNCHANGED <<sourceFiles, i, modelFileMap, allInterfaceNames, fs, imports,
                   usedEnums, nread>>

\* "write file": the end of one iteration of the "Generate models" loop, where
\* the collections of the module go out of scope
WriteFile ==
    /\ pc = "file"
    /\ j > Len(EntityClasses(sourceFiles[i]))
    /\ fs' = WriteFileSync(fs, Basename(sourceFiles[i]) \o ".ts",
                           Content(imports, FileName(sourceFiles[i]), fileContent,
                                   usedEnums, <<>>))
    /\ i' = i + 1
    /\ pc' = "generate"
    /\ imports' = <<>>
    /\ usedEnums' = <<>>
    /\ fileContent' = <<>>
    /\ UNCHANGED <<sourceFiles, j, modelFileMap, allInterfaceNames, properties,
                   autoProps, methods, declared, nread>>

\* "index.d.ts": the barrel file, one line per listed interface
WriteIndex ==
    /\ pc = "generate"
    /\ i > Len(sourceFiles)
    /\ fs' = WriteFileSync(fs, "index.ts",
                Content(<<>>, "", <<>>, <<>>,
                        [k \in 1..Len(allInterfaceNames) |-> allInterfaceNames[k].file]))
    /\ pc' = "done"
    /\ UNCHANGED <<sourceFiles, i, j, modelFileMap, allInterfaceNames, imports,
                   usedEnums, fileContent, properties, autoProps, methods, declared,
                   nread>>

Next ==
    \/ RegisterFile
    \/ GenerateBaseModel
    \/ StartFile
    \/ StartClass
    \/ ProcessProperty
    \/ BuildInterface
    \/ WriteFile
    \/ WriteIndex

Spec == Init /\ [][Next]_vars

----------------------------------------------------------------------------
(* Vocabulary of the properties *)

CurClassName == ClassName(EntityClasses(sourceFiles[i])[j])
CurModule == Basename(sourceFiles[i])

ToManyKinds == {"OneToMany", "ManyToMany"}
ToOneKinds == {"ManyToOne", "OneToOne"}

\* the relation decorations of a property that name a target as a string literal
NamedRelations(prop) ==
    {d \in Range(prop.decs) : d.name \in ToManyKinds \cup ToOneKinds /\ d.arg # NoArg}

\* the entries of the generated type for a property name
Entries(name) == {k \in 1..Len(properties) : properties[k].name = name}

\* the property is the target of a this.<name> assignment in a lifecycle hook
HookAssigned(name) ==
    \E k \in 1..Len(methods) :
        /\ \E d \in Range(methods[k].decs) : d \in lifecycleDecorators
        /\ name \in Range(methods[k].lhs)

Undecorated(prop) == prop.decs = <<>>
RelationDecorated(prop) == \E d \in Range(prop.decs) : isRelationDecorator(d.name)
VirtualDecorated(prop) == \E d \in Range(prop.decs) : d.name = "VirtualColumn"
ColumnDecorated(prop) == \E d \in Range(prop.decs) : EndsWithColumn(d.name)
LifecycleImplicit(prop) == Undecorated(prop) /\ HookAssigned(prop.name)

\* the entity names of the input and the module of the last file that declares each
EntityNames ==
    {c.name : c \in UNION {{d \in Range(sourceFiles[k].classes) : d.entity /\ d.name # ""} :
                             k \in 1..Len(sourceFiles)}}
Declares(k, n) == \E c \in Range(sourceFiles[k].classes) : c.entity /\ c.name = n
ModuleOf(n) ==
    Basename(sourceFiles[CHOOSE k \in 1..Len(sourceFiles) :
                 /\ Declares(k, n)
                 /\ \A l \in 1..Len(sourceFiles) : Declares(l, n) => l <= k])

\* the type a column property resolves to: the enum's name, the Model name of a
\* registered entity (array-ness kept), or the type text itself
ResolvedType(prop) ==
    IF prop.type.enum # NoEnum THEN <<prop.type.enum>>
    ELSE IF Len(prop.type.text) = 1 /\ prop.type.text[1] \in EntityNames
    THEN <<prop.type.text[1] \o "Model">>
    ELSE IF Len(prop.type.text) = 2 /\ prop.type.text[2] = "[]"
            /\ prop.type.text[1] \in EntityNames
    THEN <<prop.type.text[1] \o "Model", "[]">>
    ELSE prop.type.text

----------------------------------------------------------------------------
(* Properties *)

\* C1: a property whose relation decoration names target T as a string literal
\* is typed TModel[] for the to-many kinds (OneToMany, ManyToMany) and TModel
\* for the to-one kinds (ManyToOne, OneToOne).
C1_RelationTyping ==
    pc = "class" =>
      \A k \in 1..Len(declared) : \A d \in NamedRelations(declared[k]) :
        /\ Cardinality(Entries(declared[k].name)) = 1
        /\ \A e \in Entries(declared[k].name) :
             properties[e].type =
               IF d.name \in ToManyKinds THEN <<d.arg \o "Model", "[]">>
               ELSE <<d.arg \o "Model">>

\* C2: processing a relation-decorated property whose target is the owning
\* entity itself leaves the import set of the module unchanged.
C2_SelfRelationNoImport ==
    [][ (/\ pc = "class"
         /\ Len(declared') = Len(declared) + 1
         /\ \E d \in NamedRelations(declared'[Len(declared')]) : d.arg = CurClassName)
        => imports' = imports ]_vars

\* the modules that hold an entity type, each once, in the order first met
RECURSIVE Dedup(_)
Dedup(s) ==
    IF s = <<>> THEN <<>>
    ELSE LET front == Dedup(SubSeq(s, 1, Len(s) - 1))
             last == s[Len(s)]
         IN  IF last \in Range(front) THEN front ELSE Append(front, last)

PopulatedFiles == SelectSeq(sourceFiles, LAMBDA f : EntityClasses(f) # <<>>)

\* C3: the barrel file holds exactly one re-export line per generated module
\* that holds an entity type, in the order the modules were first met.
C3_BarrelOneLinePerModule ==
    pc = "done" =>
      fs["index.ts"].exports =
        Dedup([k \in 1..Len(PopulatedFiles) |-> Basename(PopulatedFiles[k])])

\* C4: the written modules are in one-to-one correspondence with the input
\* files that contain an entity class, and a file without one writes nothing.
C4_OneModulePerFile ==
    pc = "done" =>
      /\ Cardinality(DOMAIN fs \ {"index.ts", "base-model.ts"}) = Len(PopulatedFiles)
      /\ \A k \in 1..Len(PopulatedFiles) :
           Basename(PopulatedFiles[k]) \o ".ts" \in DOMAIN fs

\* C5: an undecorated property assigned as this.<name> in a lifecycle hook
\* appears in the generated type exactly once, with its declared type text,
\* however many hooks and assignments target it.
C5_LifecycleImplicitOnce ==
    pc = "class" =>
      \A k \in 1..Len(declared) :
        LifecycleImplicit(declared[k]) =>
          /\ Cardinality(Entries(declared[k].name)) = 1
          /\ \A e \in Entries(declared[k].name) :
               properties[e].type = declared[k].type.text

\* a lifecycle-implicit property, assigned three times over two hooks, is emitted
C5_Witness ==
    /\ pc = "class"
    /\ Len(methods) = 2
    /\ \E k \in 1..Len(declared) :
         /\ LifecycleImplicit(declared[k])
         /\ Entries(declared[k].name) # {}

\* the emitted properties of the current class whose type is the enum
EmittedWithEnum(name) ==
    {k \in 1..Len(declared) :
        declared[k].type.enum = name /\ Entries(declared[k].name) # {}}

\* C6: when two or more properties emitted into a module have the same enum
\* as their type, the module embeds exactly one block for that enum.
C6_EnumEmbeddedOnce ==
    pc = "class" =>
      (Cardinality(EmittedWithEnum("Status")) >= 2 =>
         Cardinality({k \in 1..Len(usedEnums) : usedEnums[k].name = "Status"}) = 1)

\* C7: for an entity without relation, virtual-column or lifecycle-implicit
\* properties the generated type holds exactly the Column-decorated
\* properties, each typed by resolving entity and enum references.
C7_ColumnOnlyEntity ==
    (/\ pc = "class"
     /\ \A k \in 1..Len(declared) :
          /\ ~RelationDecorated(declared[k])
          /\ ~VirtualDecorated(declared[k])
          /\ ~LifecycleImplicit(declared[k]))
    => /\ {properties[e].name : e \in 1..Len(properties)} =
            {declared[k].name : k \in {n \in 1..Len(declared) : ColumnDecorated(declared[n])}}
       /\ \A k \in 1..Len(declared) : \A e \in Entries(declared[k].name) :
            properties[e].type = ResolvedType(declared[k])

\* C8: the registry is complete before any property is classified and is not
\* modified afterwards, so an import for entity T names the module of T's
\* file wherever that file stands in the processing order.
C8_RegistryBarrier ==
    pc # "register" =>
      /\ DOMAIN modelFileMap = EntityNames
      /\ \A n \in EntityNames : modelFileMap[n] = ModuleOf(n)
      /\ \A n \in EntityNames : \A k \in 1..Len(imports) :
           imports[k].name = n \o "Model" => imports[k].from = ModuleOf(n)

\* an import names the module of an entity whose file is processed later
C8_Witness ==
    /\ pc = "class"
    /\ i < Len(sourceFiles)
    /\ \E k \in 1..Len(imports) : imports[k].from = Basename(sourceFiles[i + 1])
    /\ Basename(sourceFiles[i + 1]) # CurModule

\* C9: a property with a non-virtual Column decoration that is also assigned
\* in a lifecycle hook is typed as an explicit column: its entity or enum
\* reference is resolved and the import or enum is registered.
C9_ColumnBeforeLifecycle ==
    pc = "class" =>
      \A k \in 1..Len(declared) :
        (/\ ColumnDecorated(declared[k])
         /\ ~RelationDecorated(declared[k])
         /\ ~VirtualDecorated(declared[k])
         /\ HookAssigned(declared[k].name))
        => /\ \A e \in Entries(declared[k].name) :
                properties[e].type = ResolvedType(declared[k])
           /\ declared[k].type.enum # NoEnum =>
                \E e \in 1..Len(usedEnums) : usedEnums[e].name = declared[k].type.enum

\* C10: in a generated module no import line names that same module as its
\* source.
C10_NoModuleLocalImport ==
    pc \in {"file", "class"} =>
      \A k \in 1..Len(imports) : imports[k].from # CurModule

====
